---- MODULE Spec2Model ----
(***************************************************************************)
(* estester: fixture lifecycle of ElasticSearchQueryTestCase and           *)
(* MultipleIndexesQueryTestCase around a unittest test body.               *)
(*                                                                         *)
(* The backend (an ElasticSearch server reached through elasticsearch-py)  *)
(* is the shared state `es`; a test case is a set of class attributes;     *)
(* ExtendedTestCase.__call__ runs _pre_setup, the test, _post_teardown.    *)
(* Every backend request and every method call of an invocation is logged  *)
(* in `reqs` and `calls`.                                                  *)
(***************************************************************************)
EXTENDS Integers, Sequences, FiniteSets, TLC

\* ---------------------------------------------------------------- bounds
MaxRuns == 2        \* test invocations in sequence against the same backend
MaxDocs == 2        \* length of a class-level fixtures list
MaxEntryDocs == 1   \* length of the fixtures list of one entry of data
MaxIndexes == 2     \* entries of data

\* ------------------------------------------------------------ input sets
index == "sample.test"
IndexNames == {index, "other"}

\* {} , "" and [] are all falsy in Python; one value stands for them.
EmptyVal == "{}"
Truthy(v) == v # EmptyVal
Or(a, b) == IF Truthy(a) THEN a ELSE b

ClassMappings == {EmptyVal, "M"}
ClassSettings == {EmptyVal, "S"}
\* settings and mappings of one entry of data (a missing key reads as {})
EntryConfigs == {[settings |-> EmptyVal, mappings |-> EmptyVal],
                 [settings |-> "s", mappings |-> "m"]}

\* two documents with the same id and one with another id
GoodDocs == {[type |-> "book", id |-> "1", body |-> "x"],
             [type |-> "book", id |-> "1", body |-> "y"],
             [type |-> "book", id |-> "2", body |-> "x"]}
\* a fixture without the "id" key
NoIdDoc == [type |-> "book", body |-> "x"]
Docs == GoodDocs \cup {NoIdDoc}
WellFormed(doc) == {"type", "id", "body"} \subseteq DOMAIN doc
\* the multi-index case draws from two small pools: the documents of the
\* entries of data and the documents of the class-level default list
EntryDocs == {[type |-> "book", id |-> "1", body |-> "x"]}
DefaultDocs == {[type |-> "book", id |-> "2", body |-> "x"], NoIdDoc}
NoDoc == [type |-> "", id |-> "", body |-> ""]

SeqsUpTo(S, n) == UNION {[1..k -> S] : k \in 0..n}
Range(s) == {s[i] : i \in DOMAIN s}

\* ------------------------------------------------------------ dictionaries
EmptyDict == [k \in {} |-> EmptyVal]
Put(d, k, v) == [x \in (DOMAIN d) \cup {k} |-> IF x = k THEN v ELSE d[x]]

VARIABLES
    es,           \* backend: index name -> [exists, docs]
    run,          \* number of test invocations started
    pc,           \* position in ExtendedTestCase.__call__
    kind,         \* "single" | "multi": the class of the test case
    reset_index,  \* class attribute
    mappings,     \* class attribute
    settings,     \* class attribute
    fixtures,     \* class attribute
    data,         \* class attribute of the multi-index case, in items() order
    calls,        \* method calls of this invocation
    reqs,         \* backend requests of this invocation
    phases,       \* phases of __call__ entered in this invocation
    raised,       \* exception that left __call__: [exc, phase]
    result        \* what the test runner recorded for the test body

vars == <<es, run, pc, kind, reset_index, mappings, settings, fixtures, data,
          calls, reqs, phases, raised, result>>

config == <<kind, reset_index, mappings, settings>>

\* --------------------------------------------------------------- backend
Absent == [exists |-> FALSE, docs |-> {}]

BackendCreate(store, name) ==
    IF store[name].exists
    THEN [es |-> store, status |-> 400]
    ELSE [es |-> [store EXCEPT ![name] = [exists |-> TRUE, docs |-> {}]],
          status |-> 200]

BackendDelete(store, name) ==
    IF store[name].exists
    THEN [es |-> [store EXCEPT ![name] = Absent], status |-> 200]
    ELSE [es |-> store, status |-> 404]

\* index-or-replace; the index is created on the fly when it is missing
BackendIndex(store, name, doc) ==
    LET kept == {d \in store[name].docs : ~(d.type = doc.type /\ d.id = doc.id)}
    IN  [es |-> [store EXCEPT ![name] = [exists |-> TRUE, docs |-> kept \cup {doc}]],
         status |-> 201]

Backend(op, store, name, doc) ==
    CASE op = "create" -> BackendCreate(store, name)
      [] op = "delete" -> BackendDelete(store, name)
      [] op = "index"  -> BackendIndex(store, name, doc)

\* ------------------------------------------------ one call of the client
\* w is the running hook: [es, calls, reqs, exc, hook, fault]. A method is
\* skipped when an exception is already propagating (w.exc # "none").
\* fault = [at, exc]: the at-th request of the hook does not get through
\* (exc = "error": transport error or 5xx; exc = "interrupt": KeyboardInterrupt
\* or SystemExit is raised while waiting).
Enter(w, method, arg) ==
    [w EXCEPT !.calls = Append(@, [hook |-> w.hook, method |-> method, arg |-> arg])]

Request(w, op, name, body, doc, ignore) ==
    LET n       == Len(w.reqs) + 1
        faulted == w.fault.at = n
        r       == IF faulted
                   THEN [es |-> w.es,
                         status |-> IF w.fault.exc = "error" THEN 503 ELSE 0]
                   ELSE Backend(op, w.es, name, doc)
        exc     == IF faulted THEN w.fault.exc
                   ELSE IF r.status >= 400 /\ r.status \notin ignore THEN "error"
                   ELSE "none"
    IN  [w EXCEPT !.es = r.es,
                  !.exc = exc,
                  !.reqs = Append(@, [hook |-> w.hook, call |-> Len(w.calls),
                                      op |-> op, index |-> name, body |-> body,
                                      doc |-> doc, status |-> r.status,
                                      exc |-> exc])]

\* variant: a document that lacks a key is skipped and the loop goes on
RECURSIVE IndexDocs_skip_bad(_, _, _)
IndexDocs_skip_bad(w, name, docs) ==
    IF docs = <<>> \/ w.exc # "none" THEN w
    ELSE IF ~WellFormed(Head(docs)) THEN IndexDocs_skip_bad(w, name, Tail(docs))
    ELSE IndexDocs_skip_bad(Request(w, "index", name, EmptyDict, Head(docs), {}),
                            name, Tail(docs))

\* variant: a failed upsert is remembered and the loop goes on to the end
RECURSIVE IndexDocs_keep_going(_, _, _)
IndexDocs_keep_going(w, name, docs) ==
    IF docs = <<>> THEN w
    ELSE IF ~WellFormed(Head(docs)) THEN [w EXCEPT !.exc = "error"]
    ELSE LET w1 == Request(w, "index", name, EmptyDict, Head(docs), {})
             w2 == IndexDocs_keep_going([w1 EXCEPT !.exc = "none"], name, Tail(docs))
         IN  IF w1.exc # "none" THEN [w2 EXCEPT !.exc = w1.exc] ELSE w2

RECURSIVE IndexDocs(_, _, _)
IndexDocs(w, name, docs) ==
    IF docs = <<>> \/ w.exc # "none" THEN w
    ELSE IF ~WellFormed(Head(docs)) THEN [w EXCEPT !.exc = "error"]  \* KeyError
    ELSE IndexDocs(Request(w, "index", name, EmptyDict, Head(docs), {}),
                   name, Tail(docs))

\* ------------------------------------------- ElasticSearchQueryTestCase
\* variant: the answer "index already exists" is not an error
S_create_index_ignore_400(w) ==
    IF w.exc # "none" THEN w
    ELSE LET d0 == EmptyDict
             d1 == IF Truthy(mappings) THEN Put(d0, "mappings", mappings) ELSE d0
             d2 == IF Truthy(settings) THEN Put(d1, "settings", settings) ELSE d1
         IN  Request(Enter(w, "create_index", index), "create", index, d2, NoDoc, {400})

\* variant: mappings is put into the request whether it is empty or not
S_create_index_always_mappings(w) ==
    IF w.exc # "none" THEN w
    ELSE LET d1 == Put(EmptyDict, "mappings", mappings)
             d2 == IF Truthy(settings) THEN Put(d1, "settings", settings) ELSE d1
         IN  Request(Enter(w, "create_index", index), "create", index, d2, NoDoc, {})

S_create_index(w) ==
    IF w.exc # "none" THEN w
    ELSE LET d0 == EmptyDict
             d1 == IF Truthy(mappings) THEN Put(d0, "mappings", mappings) ELSE d0
             d2 == IF Truthy(settings) THEN Put(d1, "settings", settings) ELSE d1
         IN  Request(Enter(w, "create_index", index), "create", index, d2, NoDoc, {})

S_load_fixtures(w) ==
    IF w.exc # "none" THEN w
    ELSE IndexDocs(Enter(w, "load_fixtures", index), index, fixtures)

S_delete_index(w) ==
    IF w.exc # "none" THEN w
    ELSE Request(Enter(w, "delete_index", index), "delete", index, EmptyDict, NoDoc, {404})

\* variant: the documents are loaded first, then the index is reset
S_pre_setup_load_first(w) ==
    LET w1 == S_load_fixtures(w)
        w2 == IF reset_index THEN S_delete_index(w1) ELSE w1
    IN  S_create_index(w2)

\* variant: the index is created before the old one is deleted
S_pre_setup_create_first(w) ==
    LET w1 == S_create_index(w)
        w2 == IF reset_index THEN S_delete_index(w1) ELSE w1
    IN  S_load_fixtures(w2)

S_pre_setup(w) ==
    LET w1 == IF reset_index THEN S_delete_index(w) ELSE w
        w2 == S_create_index(w1)
    IN  S_load_fixtures(w2)

S_post_teardown(w) ==
    IF reset_index THEN S_delete_index(w) ELSE w

\* a stored document as a hit of a search response: the body it was indexed
\* with comes back as the hit's source
Hit(name, d) == [index |-> name, type |-> d.type, id |-> d.id, source |-> d.body]

S_search(store) ==
    IF store[index].exists
    THEN [status |-> 200, hits |-> {Hit(index, d) : d \in store[index].docs}]
    ELSE [status |-> 404, hits |-> {}]

\* ----------------------------------------- MultipleIndexesQueryTestCase
\* variant: create_index swallows the error of the backend
M_create_index_swallow(w, index_name, settings_arg, mappings_arg) ==
    IF w.exc # "none" THEN w
    ELSE LET d0 == EmptyDict
             d1 == IF Truthy(mappings)
                   THEN Put(d0, "mappings", Or(mappings_arg, mappings)) ELSE d0
             d2 == IF Truthy(settings)
                   THEN Put(d1, "settings", Or(settings_arg, settings)) ELSE d1
         IN  [Request(Enter(w, "create_index", index_name), "create", index, d2,
                      NoDoc, {}) EXCEPT !.exc = "none"]

M_create_index(w, index_name, settings_arg, mappings_arg) ==
    IF w.exc # "none" THEN w
    ELSE LET d0 == EmptyDict
             d1 == IF Truthy(mappings)
                   THEN Put(d0, "mappings", Or(mappings_arg, mappings)) ELSE d0
             d2 == IF Truthy(settings)
                   THEN Put(d1, "settings", Or(settings_arg, settings)) ELSE d1
         IN  Request(Enter(w, "create_index", index_name), "create", index, d2, NoDoc, {})

\* variant: an empty fixtures argument is taken as it is, without the default
M_load_fixtures_no_default(w, index_name, fixtures_arg) ==
    IF w.exc # "none" THEN w
    ELSE LET name == Or(index_name, index)
         IN  IndexDocs(Enter(w, "load_fixtures", index_name), name, fixtures_arg)

M_load_fixtures(w, index_name, fixtures_arg) ==
    IF w.exc # "none" THEN w
    ELSE LET name == Or(index_name, index)
             docs == IF fixtures_arg # <<>> THEN fixtures_arg ELSE fixtures
         IN  IndexDocs(Enter(w, "load_fixtures", index_name), name, docs)

\* variant: delete_index swallows every error of the backend, not only 404
M_delete_index_swallow(w, index_name) ==
    IF w.exc # "none" THEN w
    ELSE [Request(Enter(w, "delete_index", index_name), "delete", index, EmptyDict,
                  NoDoc, {404}) EXCEPT !.exc = "none"]

M_delete_index(w, index_name) ==
    IF w.exc # "none" THEN w
    ELSE Request(Enter(w, "delete_index", index_name), "delete", index, EmptyDict, NoDoc, {404})

RECURSIVE M_pre_setup(_, _)
M_pre_setup(w, items) ==
    IF items = <<>> \/ w.exc # "none" THEN w
    ELSE LET e  == Head(items)
             w1 == IF reset_index THEN M_delete_index(w, e.name) ELSE w
             w2 == M_create_index(w1, e.name, e.settings, e.mappings)
             w3 == M_load_fixtures(w2, e.name, e.fixtures)
         IN  M_pre_setup(w3, Tail(items))

RECURSIVE M_post_teardown(_, _)
M_post_teardown(w, items) ==
    IF items = <<>> \/ w.exc # "none" THEN w
    ELSE LET e  == Head(items)
             w1 == IF reset_index THEN M_delete_index(w, e.name) ELSE w
         IN  M_post_teardown(w1, Tail(items))

\* no index restriction: every index of the backend
M_search(store) ==
    [status |-> 200,
     hits |-> UNION {{Hit(n, d) : d \in store[n].docs} : n \in IndexNames}]

\* variant: the index argument is not passed on to the client
M_search_in_index_unrestricted(store, name) ==
    [status |-> 200,
     hits |-> UNION {{Hit(n, d) : d \in store[n].docs} : n \in IndexNames}]

M_search_in_index(store, name) ==
    IF store[name].exists
    THEN [status |-> 200, hits |-> {Hit(name, d) : d \in store[name].docs}]
    ELSE [status |-> 404, hits |-> {}]

\* ----------------------------------------------------- ExtendedTestCase
Hook(h, f) == [es |-> es, calls |-> calls, reqs |-> reqs, exc |-> "none",
               hook |-> h, fault |-> f]

pre_setup(w) == IF kind = "single" THEN S_pre_setup(w) ELSE M_pre_setup(w, data)
post_teardown(w) == IF kind = "single" THEN S_post_teardown(w) ELSE M_post_teardown(w, data)

Faults(n) == {[at |-> 0, exc |-> "none"]}
             \cup [at : 1..n, exc : {"error", "interrupt"}]

\* class definition of the next test case: same class skeleton, its own fixtures
Entries == {[name |-> n, settings |-> c.settings, mappings |-> c.mappings,
             fixtures |-> <<>>] : n \in IndexNames, c \in EntryConfigs}
DataSets == {d \in SeqsUpTo(Entries, MaxIndexes) :
                \A i, j \in DOMAIN d : i # j => d[i].name # d[j].name}

NewTestCase ==
    /\ pc = "idle"
    /\ run < MaxRuns
    /\ \E fx \in IF kind = "single" THEN SeqsUpTo(Docs, MaxDocs)
                 ELSE SeqsUpTo(DefaultDocs, MaxEntryDocs) :
         fixtures' = fx
    /\ \E efx \in [DOMAIN data -> SeqsUpTo(EntryDocs, MaxEntryDocs)] :
         data' = [i \in DOMAIN data |-> [data[i] EXCEPT !.fixtures = efx[i]]]
    /\ run' = run + 1
    /\ pc' = "ready"
    /\ UNCHANGED <<es, config, calls, reqs, phases, raised, result>>

\* variant: an error of _pre_setup is noted and the test is run all the same
Call_pre_setup_swallow ==
    /\ pc = "ready"
    /\ \E f \in Faults(Len(pre_setup(Hook("pre", [at |-> 0, exc |-> "none"])).reqs)) :
         LET w == pre_setup(Hook("pre", f))
         IN  /\ es' = w.es
             /\ calls' = w.calls
             /\ reqs' = w.reqs
             /\ phases' = Append(phases, "pre")
             /\ raised' = IF w.exc # "none" THEN [exc |-> w.exc, phase |-> "pre"]
                          ELSE raised
             /\ pc' = "body"
    /\ UNCHANGED <<run, config, fixtures, data, result>>

Call_pre_setup ==
    /\ pc = "ready"
    /\ \E f \in Faults(Len(pre_setup(Hook("pre", [at |-> 0, exc |-> "none"])).reqs)) :
         LET w == pre_setup(Hook("pre", f))
         IN  /\ es' = w.es
             /\ calls' = w.calls
             /\ reqs' = w.reqs
             /\ phases' = Append(phases, "pre")
             /\ IF w.exc # "none"
                THEN /\ raised' = [exc |-> w.exc, phase |-> "pre"]
                     /\ pc' = "done"
                ELSE /\ raised' = raised
                     /\ pc' = "body"
    /\ UNCHANGED <<run, config, fixtures, data, result>>

\* variant: a failure of the test leaves __call__ instead of being recorded
Call_test_propagate ==
    /\ pc = "body"
    /\ phases' = Append(phases, "body")
    /\ \E outcome \in {"pass", "fail", "exit", "interrupt"} :
         IF outcome # "pass"
         THEN /\ raised' = [exc |-> IF outcome = "fail" THEN "error" ELSE "interrupt",
                            phase |-> "body"]
              /\ result' = result
              /\ pc' = "done"
         ELSE /\ raised' = raised
              /\ result' = outcome
              /\ pc' = "post"
    /\ UNCHANGED <<es, run, config, fixtures, data, calls, reqs>>

\* unittest.TestCase.__call__: the test passes, fails (a failed assertion or
\* an ordinary exception), raises SystemExit ("exit") or is interrupted by
\* KeyboardInterrupt. unittest records a failure and any exception but
\* KeyboardInterrupt in the result and returns (SystemExit too, as an error
\* of the test: result = "exit"); KeyboardInterrupt is re-raised.
Call_test ==
    /\ pc = "body"
    /\ phases' = Append(phases, "body")
    /\ \E outcome \in {"pass", "fail", "exit", "interrupt"} :
         IF outcome = "interrupt"
         THEN /\ raised' = [exc |-> "interrupt", phase |-> "body"]
              /\ result' = result
              /\ pc' = "done"
         ELSE /\ raised' = raised
              /\ result' = outcome
              /\ pc' = "post"
    /\ UNCHANGED <<es, run, config, fixtures, data, calls, reqs>>

\* variant: an error of the after-hook takes the place of the recorded result
Call_post_teardown_masks ==
    /\ pc = "post"
    /\ \E f \in Faults(Len(post_teardown(Hook("post", [at |-> 0, exc |-> "none"])).reqs)
                       - Len(reqs)) :
         LET g == IF f.at = 0 THEN f ELSE [f EXCEPT !.at = @ + Len(reqs)]
             w == post_teardown(Hook("post", g))
         IN  /\ es' = w.es
             /\ calls' = w.calls
             /\ reqs' = w.reqs
             /\ phases' = Append(phases, "post")
             /\ raised' = IF w.exc # "none" THEN [exc |-> w.exc, phase |-> "post"]
                          ELSE raised
             /\ result' = IF w.exc # "none" THEN "none" ELSE result
             /\ pc' = "done"
    /\ UNCHANGED <<run, config, fixtures, data>>

\* variant: the after-hook is wrapped in a catch-all and nothing leaves it
Call_post_teardown_swallow ==
    /\ pc = "post"
    /\ \E f \in Faults(Len(post_teardown(Hook("post", [at |-> 0, exc |-> "none"])).reqs)
                       - Len(reqs)) :
         LET g == IF f.at = 0 THEN f ELSE [f EXCEPT !.at = @ + Len(reqs)]
             w == post_teardown(Hook("post", g))
         IN  /\ es' = w.es
             /\ calls' = w.calls
             /\ reqs' = w.reqs
             /\ phases' = Append(phases, "post")
             /\ raised' = raised
             /\ pc' = "done"
    /\ UNCHANGED <<run, config, fixtures, data, result>>

Call_post_teardown ==
    /\ pc = "post"
    /\ \E f \in Faults(Len(post_teardown(Hook("post", [at |-> 0, exc |-> "none"])).reqs)
                       - Len(reqs)) :
         LET g == IF f.at = 0 THEN f ELSE [f EXCEPT !.at = @ + Len(reqs)]
             w == post_teardown(Hook("post", g))
         IN  /\ es' = w.es
             /\ calls' = w.calls
             /\ reqs' = w.reqs
             /\ phases' = Append(phases, "post")
             /\ raised' = IF w.exc # "none" THEN [exc |-> w.exc, phase |-> "post"]
                          ELSE raised
             /\ pc' = "done"
    /\ UNCHANGED <<run, config, fixtures, data, result>>

\* __call__ has returned or raised; the runner drops the instance and goes on
Return ==
    /\ pc = "done"
    /\ run < MaxRuns
    /\ pc' = "idle"
    /\ fixtures' = <<>>
    /\ data' = [i \in DOMAIN data |-> [data[i] EXCEPT !.fixtures = <<>>]]
    /\ calls' = <<>>
    /\ reqs' = <<>>
    /\ phases' = <<>>
    /\ raised' = [exc |-> "none", phase |-> "none"]
    /\ result' = "none"
    /\ UNCHANGED <<es, run, config>>

Init ==
    /\ es = [n \in IndexNames |-> Absent]
    /\ run = 0
    /\ pc = "idle"
    /\ kind \in {"single", "multi"}
    /\ reset_index \in BOOLEAN
    /\ mappings \in ClassMappings
    /\ settings \in ClassSettings
    \* the multi-index classes set both class-level defaults or neither
    /\ kind = "multi" => (Truthy(mappings) <=> Truthy(settings))
    /\ fixtures = <<>>
    /\ data \in IF kind = "single" THEN {<<>>} ELSE DataSets
    /\ calls = <<>>
    /\ reqs = <<>>
    /\ phases = <<>>
    /\ raised = [exc |-> "none", phase |-> "none"]
    /\ result = "none"

Next == NewTestCase \/ Call_pre_setup \/ Call_test \/ Call_post_teardown \/ Return

Spec == Init /\ [][Next]_vars

\* ================================================================ claims
Call(i, h, m) == i \in DOMAIN calls /\ calls[i].hook = h /\ calls[i].method = m
PreDone == pc \in {"body", "post"} \/ "body" \in Range(phases)
ReqsOf(i) == {j \in DOMAIN reqs : reqs[j].call = i}

\* C1: with reset_index, every create_index call of the before-hook comes
\* right after a delete_index call for the same index name that did not
\* raise, and once the before-hook has returned (the test body can start) it
\* is followed by the load_fixtures call for that name, none of them raising.
C1_DeleteCreateLoad ==
    reset_index =>
      \A i \in DOMAIN calls :
        Call(i, "pre", "create_index") =>
          /\ i > 1
          /\ Call(i - 1, "pre", "delete_index")
          /\ calls[i - 1].arg = calls[i].arg
          /\ \A j \in ReqsOf(i - 1) : reqs[j].exc = "none"
          /\ PreDone =>
                /\ Call(i + 1, "pre", "load_fixtures")
                /\ calls[i + 1].arg = calls[i].arg
                /\ \A j \in ReqsOf(i) \cup ReqsOf(i + 1) : reqs[j].exc = "none"

C1_Witness ==
    /\ kind = "multi" /\ Len(data) = 2 /\ reset_index /\ pc = "body"
    /\ Len(calls) = 6
    /\ Call(5, "pre", "create_index")

\* C2 as stated: whenever an invocation ends without an interrupt, the
\* after-hook has been run, also when the before-hook raised.
C2_AfterHookAlways ==
    (pc = "done" /\ raised.exc # "interrupt") => "post" \in Range(phases)

\* C2 amended: an invocation whose before-hook returned and whose body did
\* not interrupt runs before-hook, body, after-hook in that order, whether
\* the body passed or failed; one whose before-hook raised runs nothing else.
C2_AfterHookUnlessSetupRaised ==
    pc = "done" =>
      /\ raised.phase = "pre" => phases = <<"pre">>
      /\ (raised.phase # "pre" /\ raised.exc # "interrupt") =>
            phases = <<"pre", "body", "post">>

C2_Witness ==
    pc = "done" /\ result = "fail" /\ phases = <<"pre", "body", "post">>

\* C3: when the before-hook raises, the test body is never run in that
\* invocation: nothing is recorded for it and the invocation is over.
C3_SetupErrorSkipsBody ==
    raised.phase = "pre" =>
      /\ "body" \notin Range(phases)
      /\ result = "none"
      /\ pc = "done"

C3_Witness ==
    /\ raised = [exc |-> "error", phase |-> "pre"]
    /\ \E j \in DOMAIN reqs : reqs[j].op = "create" /\ reqs[j].status = 400

Names == {data[i].name : i \in DOMAIN data}
Managed == IF kind = "single" THEN {index} ELSE Names
Entry(n) == data[CHOOSE i \in DOMAIN data : data[i].name = n]
\* the documents the test case declares for index n
Declared(n) ==
    IF kind = "single" THEN Range(fixtures)
    ELSE IF Entry(n).fixtures # <<>> THEN Range(Entry(n).fixtures) ELSE Range(fixtures)
SearchIn(n) == IF kind = "single" THEN S_search(es) ELSE M_search_in_index(es, n)
ArgOf(j) == calls[reqs[j].call].arg

\* C4: in a second run with reset_index, right after the before-hook a
\* search of a managed index returns documents of this run's fixtures only.
C4_Isolation ==
    (run >= 2 /\ pc = "body" /\ reset_index) =>
      \A n \in Managed : \A h \in SearchIn(n).hits :
        \E d \in Declared(n) :
          h.type = d.type /\ h.id = d.id /\ h.source = d.body

\* C5: in the multi-index case every backend request is issued against the
\* index name its method call was given, which is a key of data.
C5_RequestsTargetNamedIndex ==
    kind = "multi" =>
      \A j \in DOMAIN reqs : reqs[j].index = ArgOf(j) /\ reqs[j].index \in Names

\* C6: after a complete invocation with reset_index in which no backend call
\* failed, every managed index is absent from the backend.
C6_NothingLeftBehind ==
    ( /\ pc = "done" /\ reset_index
      /\ phases = <<"pre", "body", "post">>
      /\ raised.exc = "none"
      /\ \A j \in DOMAIN reqs : reqs[j].exc = "none" ) =>
      \A n \in Managed : ~es[n].exists

\* C7: a delete_index call answered 200 (index existed) or 404 (index did not
\* exist) does not raise, and when the after-hook is over the index it was
\* called for is absent in both cases.
C7_DeleteIdempotent ==
    \A j \in DOMAIN reqs :
      (reqs[j].op = "delete" /\ reqs[j].status \in {200, 404}) =>
        /\ reqs[j].exc = "none"
        /\ (pc = "done" /\ reqs[j].hook = "post") => ~es[ArgOf(j)].exists

\* C8 as stated: when a delete of the multi-index after-hook fails with an
\* error, delete_index is still called for every other entry of data.
C8_TeardownBestEffort ==
    ( /\ kind = "multi" /\ reset_index /\ pc = "done"
      /\ \E j \in DOMAIN reqs : reqs[j].hook = "post" /\ reqs[j].exc = "error" ) =>
      \A n \in Names : \E c \in DOMAIN calls :
         Call(c, "post", "delete_index") /\ calls[c].arg = n

\* C8 amended: a delete of the multi-index after-hook that fails with an
\* error is the last request and the last method call of the invocation,
\* and the error leaves the after-hook.
C8_TeardownStopsAtFirstError ==
    kind = "multi" =>
      \A j \in DOMAIN reqs :
        (reqs[j].hook = "post" /\ reqs[j].exc = "error") =>
          /\ j = Len(reqs)
          /\ reqs[j].call = Len(calls)
          /\ raised = [exc |-> "error", phase |-> "post"]

C8_Witness ==
    /\ kind = "multi" /\ Len(data) = 2 /\ reset_index /\ pc = "done"
    /\ raised = [exc |-> "error", phase |-> "post"]
    /\ Cardinality({c \in DOMAIN calls : calls[c].hook = "post"}) = 1
    /\ calls[Len(calls)].arg = data[1].name

\* C9: a request of the multi-index before-hook that fails with an error is
\* the last request and the last method call of the invocation: the error
\* leaves the before-hook and nothing is called for the entries after it.
C9_SetupStopsAtFirstError ==
    kind = "multi" =>
      \A j \in DOMAIN reqs :
        (reqs[j].hook = "pre" /\ reqs[j].exc = "error") =>
          /\ j = Len(reqs)
          /\ reqs[j].call = Len(calls)
          /\ raised = [exc |-> "error", phase |-> "pre"]

C9_Witness ==
    /\ kind = "multi" /\ Len(data) = 2 /\ pc = "done"
    /\ raised = [exc |-> "error", phase |-> "pre"]
    /\ reqs[Len(reqs)].op \in {"create", "index"}
    /\ \A c \in DOMAIN calls : calls[c].arg = data[1].name

\* C10: the creation request of the multi-index create_index carries, for
\* settings and for mappings, the per-call value if non-empty, else the
\* class-level value if non-empty, else nothing.
Carries(body, key, v) ==
    /\ key \in DOMAIN body <=> Truthy(v)
    /\ Truthy(v) => body[key] = v

C10_CreateBodyResolved ==
    kind = "multi" =>
      \A j \in DOMAIN reqs :
        reqs[j].op = "create" =>
          /\ Carries(reqs[j].body, "settings", Or(Entry(ArgOf(j)).settings, settings))
          /\ Carries(reqs[j].body, "mappings", Or(Entry(ArgOf(j)).mappings, mappings))

\* the method call c has returned without raising
Returned(c) == c < Len(calls) \/ PreDone
Sent(c) == {reqs[j].doc : j \in ReqsOf(c)}

\* C11: a load_fixtures call of the multi-index case sends its upserts to
\* the index it was called for; with an empty override it sends the
\* class-level default documents, and nothing at all when that list is empty
\* too; with a non-empty override it sends the override's documents only.
\* A call that returned has sent all of them.
C11_FixturesResolved ==
    kind = "multi" =>
      \A c \in DOMAIN calls :
        Call(c, "pre", "load_fixtures") =>
          LET over == Entry(calls[c].arg).fixtures
              want == IF over # <<>> THEN Range(over) ELSE Range(fixtures)
          IN  /\ \A j \in ReqsOf(c) :
                    reqs[j].op = "index" /\ reqs[j].index = calls[c].arg
              /\ (over = <<>> /\ fixtures = <<>>) => ReqsOf(c) = {}
              /\ Sent(c) \subseteq want
              /\ Returned(c) => Sent(c) = want

C11_Witness ==
    /\ kind = "multi" /\ pc = "body"
    /\ \E c \in DOMAIN calls :
         /\ Call(c, "pre", "load_fixtures")
         /\ Entry(calls[c].arg).fixtures = <<>>
         /\ fixtures # <<>>
         /\ Sent(c) = Range(fixtures)

\* the list a load_fixtures call works on, and the requests it made, in order
ListOf(c) ==
    IF kind = "single" THEN fixtures
    ELSE IF Entry(calls[c].arg).fixtures # <<>> THEN Entry(calls[c].arg).fixtures
    ELSE fixtures
ReqSeq(c) == SelectSeq(reqs, LAMBDA r : r.call = c)
Malformed(L) == {k \in DOMAIN L : ~WellFormed(L[k])}
FirstBad(L) == CHOOSE k \in Malformed(L) : \A i \in Malformed(L) : k <= i
NoRequestFailed == \A j \in DOMAIN reqs : reqs[j].exc = "none"

\* C12 as stated: when a list the before-hook loads holds a document without
\* a required key, the before-hook raises and has issued no backend request.
C12_RejectedBeforeAnyRequest ==
    ( /\ phases # <<>>
      /\ \E n \in Managed : Malformed(IF kind = "single" THEN fixtures
                                        ELSE IF Entry(n).fixtures # <<>>
                                             THEN Entry(n).fixtures ELSE fixtures) # {} ) =>
      /\ raised.phase = "pre"
      /\ reqs = <<>>

\* C12 amended: a document without a required key is rejected only when
\* load_fixtures reaches it. The create request has been issued before, the
\* upserts of the documents in front of it are the only requests of the call
\* (all of them when no request failed), none is issued for it or after it,
\* and the error leaves the before-hook: the call is the last of the
\* invocation and the body is not run.
C12_RejectedWhenReached ==
    \A c \in DOMAIN calls :
      (Call(c, "pre", "load_fixtures") /\ Malformed(ListOf(c)) # {}) =>
        LET L  == ListOf(c)
            k  == FirstBad(L)
            rs == ReqSeq(c)
        IN  /\ Call(c - 1, "pre", "create_index")
            /\ \A j \in ReqsOf(c - 1) : reqs[j].op = "create" /\ reqs[j].exc = "none"
            /\ ReqsOf(c - 1) # {}
            /\ Len(rs) <= k - 1
            /\ \A i \in DOMAIN rs : rs[i].op = "index" /\ rs[i].doc = L[i]
            /\ NoRequestFailed => Len(rs) = k - 1
            /\ c = Len(calls)
            /\ raised.phase = "pre" /\ raised.exc # "none"
            /\ pc = "done" /\ phases = <<"pre">>

C12_Witness ==
    /\ kind = "single" /\ reset_index /\ pc = "done"
    /\ Len(fixtures) = 2 /\ Malformed(fixtures) = {2}
    /\ raised = [exc |-> "error", phase |-> "pre"]
    /\ NoRequestFailed
    /\ Len(reqs) = 3
    /\ es[index].docs = {fixtures[1]}

\* C13 as stated: a termination signal raised in the before-hook or in the
\* test body (there: KeyboardInterrupt, or SystemExit, which leaves
\* result = "exit" when it is recorded instead) leaves the adapter at once
\* without the after-hook being run.
C13_SignalsSkipAfterHook ==
    /\ (raised.exc = "interrupt" /\ raised.phase \in {"pre", "body"}) =>
          (pc = "done" /\ "post" \notin Range(phases))
    /\ result = "exit" =>
          (pc = "done" /\ raised = [exc |-> "interrupt", phase |-> "body"]
           /\ "post" \notin Range(phases))

\* C13 amended: KeyboardInterrupt or SystemExit raised during a request of a
\* hook ends the hook there and leaves the adapter (never swallowed); raised
\* in the before-hook, or KeyboardInterrupt raised in the body, it ends the
\* invocation without the after-hook. SystemExit raised in the body is
\* recorded as an error of the test and the after-hook is run.
C13_SignalsPropagate ==
    /\ \A j \in DOMAIN reqs :
         reqs[j].exc = "interrupt" =>
           /\ j = Len(reqs) /\ reqs[j].call = Len(calls)
           /\ raised = [exc |-> "interrupt", phase |-> reqs[j].hook]
           /\ pc = "done"
    /\ (raised.exc = "interrupt" /\ raised.phase = "pre") => phases = <<"pre">>
    /\ (raised.exc = "interrupt" /\ raised.phase = "body") =>
          (pc = "done" /\ phases = <<"pre", "body">>)
    /\ result = "exit" =>
          /\ raised.phase # "body"
          /\ pc \in {"post", "done"}
          /\ pc = "done" => phases = <<"pre", "body", "post">>

C13_Witness ==
    /\ pc = "done"
    /\ raised = [exc |-> "interrupt", phase |-> "pre"]
    /\ Len(reqs) >= 2
    /\ reqs[Len(reqs)].op = "create"

\* C14: when the body has failed, the after-hook leaves the recorded failure
\* as it is, and an error of the after-hook leaves the adapter on top of it.
C14_BodyFailureKept ==
    [][ (pc = "post" /\ result = "fail") =>
          /\ result' = "fail"
          /\ \A j \in DOMAIN reqs' :
                (reqs'[j].hook = "post" /\ reqs'[j].exc = "error") =>
                  raised' = [exc |-> "error", phase |-> "post"] ]_vars

C14_Witness ==
    /\ pc = "done" /\ result = "fail"
    /\ raised = [exc |-> "error", phase |-> "post"]
    /\ phases = <<"pre", "body", "post">>

\* the index a load_fixtures call writes to
TargetOf(c) == IF kind = "single" THEN index ELSE calls[c].arg
SameKey(d, e) == d.type = e.type /\ d.id = e.id

\* C15: a load_fixtures call issues its upserts one per document of its list
\* and in the list's order. A call that returned on a well-formed list has
\* issued one for every document. When the upsert of document k fails it is
\* the last request of the call and of the invocation, its error leaves the
\* before-hook, and every document in front of k is still in the index
\* (unless a later one in front of k has the same type and id and replaced it).
C15_UpsertsInOrderNoRollback ==
    \A c \in DOMAIN calls :
      Call(c, "pre", "load_fixtures") =>
        LET L  == ListOf(c)
            rs == ReqSeq(c)
        IN  /\ Len(rs) <= Len(L)
            /\ \A i \in DOMAIN rs :
                  /\ rs[i].op = "index" /\ rs[i].index = TargetOf(c)
                  /\ rs[i].doc = L[i]
            /\ (Returned(c) /\ Malformed(L) = {}) => Len(rs) = Len(L)
            /\ \A k \in DOMAIN rs :
                  rs[k].exc # "none" =>
                    /\ k = Len(rs) /\ c = Len(calls)
                    /\ reqs[Len(reqs)] = rs[k]
                    /\ raised = [exc |-> rs[k].exc, phase |-> "pre"]
                    /\ pc = "done" /\ phases = <<"pre">>
                    /\ \A i \in 1..(k - 1) :
                          (\A j \in (i + 1)..(k - 1) : ~SameKey(L[i], L[j])) =>
                            L[i] \in es[TargetOf(c)].docs

C15_Witness ==
    /\ pc = "done" /\ raised = [exc |-> "error", phase |-> "pre"]
    /\ \E c \in DOMAIN calls :
         /\ Call(c, "pre", "load_fixtures")
         /\ Len(ListOf(c)) = 2 /\ Malformed(ListOf(c)) = {}
         /\ ~SameKey(ListOf(c)[1], ListOf(c)[2])
         /\ Len(ReqSeq(c)) = 2
         /\ ReqSeq(c)[1].exc = "none" /\ ReqSeq(c)[2].exc = "error"
         /\ es[TargetOf(c)].docs = {ListOf(c)[1]}

\* the three parts of C16, as steps of the adapter
PostKeepsState ==
    (pc = "post" /\ ~reset_index) =>
      /\ es' = es /\ reqs' = reqs /\ calls' = calls
      /\ raised' = raised
PostDeletesManaged ==
    (pc = "post" /\ reset_index /\ raised'.phase # "post") =>
      \A n \in Managed :
        /\ \E j \in DOMAIN reqs' :
              /\ reqs'[j].hook = "post"
              /\ reqs'[j].op = "delete" /\ reqs'[j].index = n
        /\ ~es'[n].exists
PreSkipsOnlyDelete ==
    (pc = "ready" /\ ~reset_index) =>
      /\ \A c \in DOMAIN calls' : calls'[c].method # "delete_index"
      /\ Managed # {} =>
            /\ calls' # <<>> /\ calls'[1].method = "create_index"
            /\ \E j \in DOMAIN reqs' : reqs'[j].op = "create"
      /\ pc' = "body" =>
            \A n \in Managed :
              \E c \in DOMAIN calls' :
                /\ calls'[c].method = "create_index" /\ calls'[c].arg = n
                /\ c + 1 \in DOMAIN calls'
                /\ calls'[c + 1].method = "load_fixtures" /\ calls'[c + 1].arg = n

\* C16: with reset_index false the after-hook issues no backend call and
\* leaves every index and its documents as they were when the body ended; with
\* reset_index true an after-hook that does not raise has deleted every
\* managed index. With reset_index false the before-hook calls no
\* delete_index, and still creates and loads.
C16_ResetIndexGuardsOnlyDelete ==
    [][PostKeepsState /\ PostDeletesManaged /\ PreSkipsOnlyDelete]_vars

DistinctKeys(L) == \A i, j \in DOMAIN L : i # j => ~SameKey(L[i], L[j])

\* C17: in the single-index case with reset_index, right after a before-hook
\* that did not raise on fixtures of distinct (type, id), a search of the
\* index answers 200 with one hit per fixture, of the fixture's type and id
\* and with the fixture's body as its source, and with no other hit.
C17_RoundTrip ==
    (kind = "single" /\ reset_index /\ pc = "body" /\ DistinctKeys(fixtures)) =>
      LET r == S_search(es)
      IN  /\ r.status = 200
          /\ Cardinality(r.hits) = Len(fixtures)
          /\ \A i \in DOMAIN fixtures :
                \E h \in r.hits :
                  /\ h.index = index
                  /\ h.type = fixtures[i].type /\ h.id = fixtures[i].id
                  /\ h.source = fixtures[i].body

C17_Witness ==
    /\ kind = "single" /\ reset_index /\ pc = "body" /\ run = 2
    /\ Len(fixtures) = 2 /\ DistinctKeys(fixtures)
    /\ Cardinality(S_search(es).hits) = 2

\* C18: every creation request of the single-index create_index has a body
\* with the key mappings exactly when the class's mappings are non-empty and
\* the key settings exactly when its settings are non-empty, each with the
\* class's value, and with no other key: an empty body when both are empty.
C18_SingleCreateBody ==
    kind = "single" =>
      \A j \in DOMAIN reqs :
        reqs[j].op = "create" =>
          /\ reqs[j].index = index
          /\ DOMAIN reqs[j].body \subseteq {"mappings", "settings"}
          /\ "mappings" \in DOMAIN reqs[j].body <=> mappings # EmptyVal
          /\ "settings" \in DOMAIN reqs[j].body <=> settings # EmptyVal
          /\ mappings # EmptyVal => reqs[j].body["mappings"] = mappings
          /\ settings # EmptyVal => reqs[j].body["settings"] = settings
          /\ (mappings = EmptyVal /\ settings = EmptyVal) => reqs[j].body = EmptyDict

C18_Witness ==
    /\ kind = "single" /\ mappings = EmptyVal /\ settings # EmptyVal
    /\ \E j \in DOMAIN reqs :
         /\ reqs[j].op = "create" /\ reqs[j].status = 200
         /\ DOMAIN reqs[j].body = {"settings"}

\* C19: in the body of a multi-index case, every document held by a managed
\* index is a hit of search, under its index; the hits of search_in_index for
\* a name are hits of that index only, one for each document it holds and
\* none for a document of another index.
C19_SearchScopes ==
    (kind = "multi" /\ pc = "body") =>
      /\ M_search(es).status = 200
      /\ \A n \in Names : \A d \in es[n].docs :
            \E h \in M_search(es).hits :
              h.index = n /\ h.type = d.type /\ h.id = d.id /\ h.source = d.body
      /\ \A n \in IndexNames :
            LET r == M_search_in_index(es, n)
            IN  /\ \A h \in r.hits :
                      /\ h.index = n
                      /\ \E d \in es[n].docs :
                            h.type = d.type /\ h.id = d.id /\ h.source = d.body
                /\ r.status = 200 => Cardinality(r.hits) = Cardinality(es[n].docs)

C19_Witness ==
    /\ kind = "multi" /\ pc = "body" /\ Names = IndexNames
    /\ \A n \in Names : es[n].docs # {}
    /\ Cardinality(M_search(es).hits) = 2
    /\ \A n \in Names : Cardinality(M_search_in_index(es, n).hits) = 1

\* C20: in the single-index case without reset_index the after-hook leaves
\* the backend as it is, so the index outlives the invocation. A before-hook
\* that finds the index present calls create_index and nothing else: its one
\* request is the creation, it fails (400 from the backend when the request
\* gets through), the error leaves the before-hook, load_fixtures is not
\* called and the index and its documents are unchanged.
C20_SecondRunFailsOnExistingIndex ==
    [][ (kind = "single" /\ ~reset_index) =>
          /\ pc = "post" => es' = es
          /\ (pc = "ready" /\ es[index].exists) =>
                /\ Len(calls') = 1 /\ calls'[1].method = "create_index"
                /\ \A c \in DOMAIN calls' : calls'[c].method # "load_fixtures"
                /\ Len(reqs') = 1 /\ reqs'[1].op = "create"
                /\ reqs'[1].index = index
                /\ reqs'[1].exc # "none"
                /\ reqs'[1].status \in {0, 400, 503}
                /\ raised' = [exc |-> reqs'[1].exc, phase |-> "pre"]
                /\ pc' = "done"
                /\ es' = es ]_vars

C20_Witness ==
    /\ kind = "single" /\ ~reset_index /\ run = 2 /\ pc = "done"
    /\ raised = [exc |-> "error", phase |-> "pre"]
    /\ phases = <<"pre">>
    /\ Len(reqs) = 1 /\ reqs[1].op = "create" /\ reqs[1].status = 400
    /\ \A c \in DOMAIN calls : calls[c].method # "load_fixtures"
    /\ es[index].exists /\ es[index].docs # {}
====
